---- MODULE Spec2Model ----
(***************************************************************************)
(* Model of RFIDTagReader.py: the serial frame reader (TagReader.readTag,  *)
(* TagReader.checkSum, TagReader.clearBuffer) and the tag-in-range edge    *)
(* handler (tagReaderCallback, installCallback, removeCallback).           *)
(*                                                                         *)
(* Bytes are their integer codes; a bytes object is a sequence of codes.   *)
(***************************************************************************)
EXTENDS Integers, Sequences, FiniteSets, TLC

\* ------------------------------------------------------------------------
\* Bytes and Python's int(bytes, 16)
\* ------------------------------------------------------------------------

\* b'\x02', the start-of-frame code readTag compares the first byte with.
STX == 2

\* self.dataSize as set by __init__.
dataSize == 16

\* self.TIRpin as set by __init__.
TIRpin == 23

\* The ASCII codes int() treats as white space (Py_ISSPACE).
IsSpace(c) == c \in {9, 10, 11, 12, 13, 32}

\* Value of one base-16 digit, 16 for a code that is no base-16 digit.
DigitValue(c) ==
    IF c \in 48..57 THEN c - 48
    ELSE IF c \in 65..70 THEN c - 55
    ELSE IF c \in 97..102 THEN c - 87
    ELSE 16

RECURSIVE LStrip(_)
LStrip(s) ==
    IF s # <<>> /\ IsSpace(Head(s)) THEN LStrip(Tail(s)) ELSE s

RECURSIVE RStrip(_)
RStrip(s) ==
    IF s # <<>> /\ IsSpace(s[Len(s)]) THEN RStrip(SubSeq(s, 1, Len(s) - 1)) ELSE s

\* The digit part of an int() literal: digits with single underscores
\* between them, at least one digit, no leading or trailing underscore.
DigitsOk(s) ==
    /\ s # <<>>
    /\ s[1] # 95
    /\ s[Len(s)] # 95
    /\ \A i \in 1..Len(s) : s[i] = 95 \/ DigitValue(s[i]) < 16
    /\ \A i \in 1..(Len(s) - 1) : ~(s[i] = 95 /\ s[i + 1] = 95)

\* A Python integer is kept as sign and magnitude: mag is the sequence of
\* its base-16 digits, most significant first, without leading zeros (the
\* tag values exceed TLC's 32-bit integers).
Zero == [neg |-> FALSE, mag |-> <<>>]

RECURSIVE StripZeros(_)
StripZeros(d) ==
    IF d # <<>> /\ Head(d) = 0 THEN StripZeros(Tail(d)) ELSE d

\* The digit values of a digit part, underscores dropped.
RECURSIVE DigitValues(_)
DigitValues(s) ==
    IF s = <<>> THEN <<>>
    ELSE IF Head(s) = 95 THEN DigitValues(Tail(s))
    ELSE <<DigitValue(Head(s))>> \o DigitValues(Tail(s))

\* int(s, 16) for a bytes object s (Python 3): white space stripped at both
\* ends, an optional sign, an optional 0x/0X prefix (one underscore may
\* follow it), then the digit part.  ok = FALSE stands for ValueError.
PyIntHex(s) ==
    LET t == RStrip(LStrip(s))
        signed == t # <<>> /\ t[1] \in {43, 45}
        neg == t # <<>> /\ t[1] = 45
        u == IF signed THEN Tail(t) ELSE t
        prefixed == Len(u) >= 2 /\ u[1] = 48 /\ u[2] \in {88, 120}
        v == IF prefixed THEN SubSeq(u, 3, Len(u)) ELSE u
        d == IF prefixed /\ v # <<>> /\ v[1] = 95 THEN Tail(v) ELSE v
        m == StripZeros(DigitValues(d))
    IN  IF DigitsOk(d)
        THEN [ok |-> TRUE, val |-> [neg |-> neg /\ m # <<>>, mag |-> m]]
        ELSE [ok |-> FALSE, val |-> Zero]

\* A Python integer of few digits as a machine integer.
RECURSIVE MagToInt(_, _)
MagToInt(m, acc) ==
    IF m = <<>> THEN acc ELSE MagToInt(Tail(m), 16 * acc + Head(m))

ToInt(n) == IF n.neg THEN 0 - MagToInt(n.mag, 0) ELSE MagToInt(n.mag, 0)

\* Python's a ^ b on integers: bitwise exclusive or of the two's complement
\* representations.  XorWidth bits hold every operand checkSum produces
\* (a 2-character literal lies in -15..255).
XorWidth == 12

RECURSIVE XorBits(_, _, _)
XorBits(a, b, n) ==
    IF n = 0 THEN 0
    ELSE (((a % 2) + (b % 2)) % 2) + 2 * XorBits(a \div 2, b \div 2, n - 1)

PyXor(a, b) ==
    LET m == 2 ^ XorWidth
        r == XorBits(a % m, b % m, XorWidth)
    IN  IF r >= m \div 2 THEN r - m ELSE r


\* ------------------------------------------------------------------------
\* readTag's decoding of the bytes it has read
\* ------------------------------------------------------------------------

Ok(v) == [ok |-> TRUE, val |-> v, exc |-> "none", err |-> "none"]
Err(exc, err) == [ok |-> FALSE, val |-> Zero, exc |-> exc, err |-> err]
\* No call has completed yet.
NoResult == Err("none", "pending")

\* Python's slice s[a:b] (0-based, clipped to the length of s).
Slice(s, a, b) ==
    LET hi == IF b < Len(s) THEN b ELSE Len(s)
    IN  IF a >= hi THEN <<>> ELSE SubSeq(s, a + 1, hi)

\* The loop of checkSum: checkedVal after the chunks i..4 have been XOR-ed
\* into acc; ok = FALSE when int() raises on a chunk.
RECURSIVE XorChunks(_, _, _)
XorChunks(tag, i, acc) ==
    IF i >= 5 THEN [ok |-> TRUE, val |-> acc]
    ELSE LET c == PyIntHex(Slice(tag, 2 * i, 2 * (i + 1)))
         IN  IF c.ok THEN XorChunks(tag, i + 1, PyXor(acc, ToInt(c.val)))
             ELSE [ok |-> FALSE, val |-> 0]

\* checkSum with the loop one chunk short (range(0, 4)).
checkSumFourChunks(tag, cs) ==
    LET x == XorChunks(tag, 1, 0)
        c == PyIntHex(cs)
    IN  IF ~x.ok \/ ~c.ok THEN "TypeError"
        ELSE IF x.val = ToInt(c.val) THEN "True"
        ELSE "False"

\* TagReader.checkSum(tag, checkSum): "True", "False", or "TypeError" when an
\* int() inside the try raises: the handler then evaluates e("checksum error")
\* on the exception instance e, which raises TypeError.
checkSum(tag, cs) ==
    LET x == XorChunks(tag, 0, 0)
        c == PyIntHex(cs)
    IN  IF ~x.ok \/ ~c.ok THEN "TypeError"
        ELSE IF x.val = ToInt(c.val) THEN "True"
        ELSE "False"

\* readTag without the flushInput() of the short-read branch.
DecodeTagKeepsPartial(tag) ==
    IF Len(tag) < dataSize - 1
    THEN [res |-> Err("ValueError", "IncompleteFrame"), flush |-> FALSE]
    ELSE LET decVal == PyIntHex(Slice(tag, 0, 10))
         IN  IF ~decVal.ok
             THEN [res |-> Err("ValueError", "MalformedPayload"), flush |-> TRUE]
             ELSE LET c == checkSum(Slice(tag, 0, 10), Slice(tag, 10, 12))
                  IN  IF c = "True" THEN [res |-> Ok(decVal.val), flush |-> FALSE]
                      ELSE IF c = "False"
                      THEN [res |-> Err("ValueError", "ChecksumMismatch"), flush |-> TRUE]
                      ELSE [res |-> Err("TypeError", "ChecksumParse"), flush |-> FALSE]

\* readTag converting tag[0:8] instead of tag[0:10].
DecodeTagShortSlice(tag) ==
    IF Len(tag) < dataSize - 1
    THEN [res |-> Err("ValueError", "IncompleteFrame"), flush |-> TRUE]
    ELSE LET decVal == PyIntHex(Slice(tag, 0, 8))
         IN  IF ~decVal.ok
             THEN [res |-> Err("ValueError", "MalformedPayload"), flush |-> TRUE]
             ELSE LET c == checkSum(Slice(tag, 0, 10), Slice(tag, 10, 12))
                  IN  IF c = "True" THEN [res |-> Ok(decVal.val), flush |-> FALSE]
                      ELSE IF c = "False"
                      THEN [res |-> Err("ValueError", "ChecksumMismatch"), flush |-> TRUE]
                      ELSE [res |-> Err("TypeError", "ChecksumParse"), flush |-> FALSE]

\* readTag insisting on ETX as the last byte of the frame.
DecodeTagChecksETX(tag) ==
    IF Len(tag) < dataSize - 1
    THEN [res |-> Err("ValueError", "IncompleteFrame"), flush |-> TRUE]
    ELSE LET decVal == PyIntHex(Slice(tag, 0, 10))
         IN  IF ~decVal.ok \/ tag[dataSize - 1] # 3
             THEN [res |-> Err("ValueError", "MalformedPayload"), flush |-> TRUE]
             ELSE LET c == checkSum(Slice(tag, 0, 10), Slice(tag, 10, 12))
                  IN  IF c = "True" THEN [res |-> Ok(decVal.val), flush |-> FALSE]
                      ELSE IF c = "False"
                      THEN [res |-> Err("ValueError", "ChecksumMismatch"), flush |-> TRUE]
                      ELSE [res |-> Err("TypeError", "ChecksumParse"), flush |-> FALSE]

\* readTag calling flushInput() on success too.
DecodeTagFlushesAlways(tag) ==
    IF Len(tag) < dataSize - 1
    THEN [res |-> Err("ValueError", "IncompleteFrame"), flush |-> TRUE]
    ELSE LET decVal == PyIntHex(Slice(tag, 0, 10))
         IN  IF ~decVal.ok
             THEN [res |-> Err("ValueError", "MalformedPayload"), flush |-> TRUE]
             ELSE LET c == checkSum(Slice(tag, 0, 10), Slice(tag, 10, 12))
                  IN  IF c = "True" THEN [res |-> Ok(decVal.val), flush |-> TRUE]
                      ELSE IF c = "False"
                      THEN [res |-> Err("ValueError", "ChecksumMismatch"), flush |-> TRUE]
                      ELSE [res |-> Err("TypeError", "ChecksumParse"), flush |-> FALSE]

\* The part of readTag after the continuation read (lines 107-121):
\* res is what the call returns or raises, flush whether flushInput() ran.
DecodeTag(tag) ==
    IF Len(tag) < dataSize - 1
    THEN [res |-> Err("ValueError", "IncompleteFrame"), flush |-> TRUE]
    ELSE LET decVal == PyIntHex(Slice(tag, 0, 10))
         IN  IF ~decVal.ok
             THEN [res |-> Err("ValueError", "MalformedPayload"), flush |-> TRUE]
             ELSE LET c == checkSum(Slice(tag, 0, 10), Slice(tag, 10, 12))
                  IN  IF c = "True" THEN [res |-> Ok(decVal.val), flush |-> FALSE]
                      ELSE IF c = "False"
                      THEN [res |-> Err("ValueError", "ChecksumMismatch"), flush |-> TRUE]
                      ELSE [res |-> Err("TypeError", "ChecksumParse"), flush |-> FALSE]


\* ------------------------------------------------------------------------
\* What the tag reader hardware puts on the serial line
\* ------------------------------------------------------------------------

\* The ASCII code of a base-16 digit value, upper case as the readers send.
HexChar(d) == IF d < 10 THEN 48 + d ELSE 55 + d

\* The 10 payload characters of a tag given as its 10 base-16 digit values.
Hex10(v) == [i \in 1..10 |-> HexChar(v[i])]

\* The tag's five bytes and the XOR of them, the transmitted check sum.
TagByte(v, i) == 16 * v[2 * i - 1] + v[2 * i]
TagXor(v) ==
    PyXor(PyXor(PyXor(PyXor(TagByte(v, 1), TagByte(v, 2)), TagByte(v, 3)),
                TagByte(v, 4)), TagByte(v, 5))
Hex2(b) == <<HexChar(b \div 16), HexChar(b % 16)>>

\* The integer a tag's digits stand for.
TagNum(v) == [neg |-> FALSE, mag |-> StripZeros(v)]

\* Terminators of the two reader families: CR LF ETX (ID) and ETX (RDM).
TermID == <<13, 10, 3>>
TermRDM == <<3>>

Frame(v, cs, term) == <<STX>> \o Hex10(v) \o cs \o term
GoodFrame(v, term) == Frame(v, Hex2(TagXor(v)), term)

\* Sample tags: 0, 1, 42, 0x0123456789, 0xABCDEF0123, 2^40 - 1.
TagSamples ==
    { <<0, 0, 0, 0, 0, 0, 0, 0, 0, 0>>,
      <<0, 0, 0, 0, 0, 0, 0, 0, 0, 1>>,
      <<0, 0, 0, 0, 0, 0, 0, 0, 2, 10>>,
      <<0, 1, 2, 3, 4, 5, 6, 7, 8, 9>>,
      <<10, 11, 12, 13, 14, 15, 0, 1, 2, 3>>,
      <<15, 15, 15, 15, 15, 15, 15, 15, 15, 15>> }

Tag42 == <<0, 0, 0, 0, 0, 0, 0, 0, 2, 10>>

\* Check sum fields sent with a payload whose XOR is x: the right one, in
\* upper and in lower case, a wrong one, "00", "8G", "+1" and " 2".
LowerCase(s) == [i \in 1..Len(s) |-> IF s[i] \in 65..90 THEN s[i] + 32 ELSE s[i]]
SumFields(x) ==
    { Hex2(x), LowerCase(Hex2(x)), Hex2((x + 1) % 256), <<48, 48>>,
      <<56, 71>>, <<43, 49>>, <<32, 50>> }

\* Payloads that are not ten base-16 digits: "0x0000002A", " 00000002A",
\* "+00000002A", "-00000002A", "0_0000002A", "0000_0002A", "00000 002A",
\* "000000002G", "000000002 ", "00000000-2".
OddPayloads ==
    { <<48, 120, 48, 48, 48, 48, 48, 48, 50, 65>>,
      <<32, 48, 48, 48, 48, 48, 48, 48, 50, 65>>,
      <<43, 48, 48, 48, 48, 48, 48, 48, 50, 65>>,
      <<45, 48, 48, 48, 48, 48, 48, 48, 50, 65>>,
      <<48, 95, 48, 48, 48, 48, 48, 48, 50, 65>>,
      <<48, 48, 48, 48, 95, 48, 48, 48, 50, 65>>,
      <<48, 48, 48, 48, 48, 32, 48, 48, 50, 65>>,
      <<48, 48, 48, 48, 48, 48, 48, 48, 50, 71>>,
      <<48, 48, 48, 48, 48, 48, 48, 48, 50, 32>>,
      <<48, 48, 48, 48, 48, 48, 48, 48, 45, 50>> }

\* Bytes queued behind a frame: nothing, or the start of the next frame.
Extras == { <<>>, <<STX, 48>> }

\* What may lie in the input buffer when readTag is called:
\* frames of sample tags of either family with any of the check sum
\* fields, odd payloads, cut-off frames, and streams not starting with STX.
InitialInputs ==
    UNION { { Frame(v, c, t) \o x :
                c \in SumFields(TagXor(v)), t \in {TermID, TermRDM}, x \in Extras } :
            v \in TagSamples }
    \cup { <<STX>> \o p \o c \o TermID \o x :
             p \in OddPayloads, c \in { <<50, 65>>, <<48, 50>>, <<56, 71>> },
             x \in Extras }
    \cup { SubSeq(GoodFrame(Tag42, TermID), 1, n) : n \in {0, 1, 9, 15} }
    \cup { <<65>>, <<65>> \o GoodFrame(Tag42, TermID),
           <<10, 3>> \o GoodFrame(Tag42, TermID), <<3, STX>> }

\* What may arrive on the serial line while the program runs: a frame of
\* tag 42, the same frame with a wrong check sum, its first 9 bytes, and
\* a stray byte 'A'.
Bursts ==
    { GoodFrame(Tag42, TermID),
      Frame(Tag42, <<50, 66>>, TermID),
      SubSeq(GoodFrame(Tag42, TermID), 1, 9),
      <<65>> }


\* ------------------------------------------------------------------------
\* State
\* ------------------------------------------------------------------------

\* Bounds of the exploration: bursts arriving on the serial line, edges of
\* the tag-in-range line, and foreground calls of readTag.
MaxBursts == 2
MaxEdges == 3
MaxCalls == 2

\* "fg" is the thread of the program that calls readTag directly, "cb" the
\* thread in which the GPIO library runs tagReaderCallback.
Threads == {"fg", "cb"}

\* Lines a caller may hand to installCallback: BCM 21 (the line the test
\* script reads) and BCM 23 (TIRpin).
Pins == {21, TIRpin}

VARIABLES
    buf,          \* serialPort's input buffer
    timeout,      \* serialPort.timeout: "None" or "short" (0.025 s)
    doCheckSum,   \* the doCheckSum setting __init__ documents: asked for by
                  \* the caller, taken by no parameter, stored nowhere and
                  \* read by nothing
    pc,           \* per thread: where it is in readTag
    tag,          \* per thread: readTag's local variable tag
    result,       \* per thread: what its last readTag returned or raised
    globalTag,    \* module global globalTag
    globalReader, \* module global globalReader: "None" or "self"
    level,        \* level of the tag-in-range line: 0 low, 1 high
    linePin,      \* the line the tag-in-range signal is wired to, which
                  \* is the one handed to installCallback
    detect,       \* lines with edge detection and the callback attached
    pending,      \* edges seen whose callback has not run yet
    removed,      \* removeCallback has returned and nothing was installed since
    sent,         \* bursts arrived so far
    edges,        \* edges so far
    calls,        \* foreground calls of readTag so far
    missed,       \* an edge has occurred whose callback never runs: there
                  \* was no edge detection on the line, or the callback
                  \* was due when the detection was removed
    since         \* what happened on the channel since the foreground's
                  \* last call: "failed" the call failed and nothing
                  \* has arrived, "frame" it failed and then one frame
                  \* of tag 42 arrived and nothing else, "none" otherwise

vars == <<buf, timeout, doCheckSum, pc, tag, result, globalTag, globalReader, level,
          linePin, detect, pending, removed, sent, edges, calls, missed, since>>

gpioVars == <<doCheckSum, globalReader, level, linePin, detect, pending, removed, edges,
              missed>>

\* The state after TagReader() and the module's import: the port is open
\* with pyserial's default timeout None and flushed; no callback installed.
InitCommon ==
    /\ timeout = "None"
    /\ doCheckSum \in BOOLEAN
    /\ pc = [t \in Threads |-> "idle"]
    /\ tag = [t \in Threads |-> <<>>]
    /\ result = [t \in Threads |-> NoResult]
    /\ globalTag = Zero
    /\ globalReader = "None"
    /\ level = 0
    /\ detect = {}
    /\ pending = 0
    /\ removed = FALSE
    /\ sent = 0
    /\ edges = 0
    /\ calls = 0
    /\ missed = FALSE
    /\ since = "none"

Init ==
    /\ buf = <<>>
    /\ linePin \in Pins
    /\ InitCommon

\* ------------------------------------------------------------------------
\* The serial line
\* ------------------------------------------------------------------------

\* A burst of bytes arrives in the input buffer.
Arrive ==
    /\ sent < MaxBursts
    /\ \E b \in Bursts :
           /\ buf' = buf \o b
           /\ since' = IF since = "failed" /\ b = GoodFrame(Tag42, TermID)
                       THEN "frame" ELSE "none"
    /\ sent' = sent + 1
    /\ UNCHANGED <<timeout, pc, tag, result, globalTag, gpioVars, calls>>

\* ------------------------------------------------------------------------
\* readTag, run by thread t
\* ------------------------------------------------------------------------

\* Finish with a handler that leaves globalTag alone when readTag raises.
FinishKeepsTag(t, res) ==
    /\ result' = [result EXCEPT ![t] = res]
    /\ since' = IF t = "fg" /\ ~res.ok THEN "failed" ELSE "none"
    /\ IF t = "cb"
       THEN /\ pc' = [pc EXCEPT ![t] = "idle"]
            /\ globalTag' = IF res.ok THEN res.val ELSE globalTag
       ELSE /\ pc' = [pc EXCEPT ![t] = "done"]
            /\ UNCHANGED globalTag

\* Finish with readTag itself storing what it returns in globalTag.
FinishStoresAlways(t, res) ==
    /\ result' = [result EXCEPT ![t] = res]
    /\ since' = IF t = "fg" /\ ~res.ok THEN "failed" ELSE "none"
    /\ pc' = [pc EXCEPT ![t] = IF t = "cb" THEN "idle" ELSE "done"]
    /\ globalTag' = IF res.ok THEN res.val ELSE Zero

\* readTag returns or raises res in thread t.  In the callback thread the
\* handler's try/except then stores the value, or 0, in globalTag and the
\* handler is over.
Finish(t, res) ==
    /\ result' = [result EXCEPT ![t] = res]
    /\ since' = IF t = "fg" /\ ~res.ok THEN "failed" ELSE "none"
    /\ IF t = "cb"
       THEN /\ pc' = [pc EXCEPT ![t] = "idle"]
            /\ globalTag' = IF res.ok THEN res.val ELSE Zero
       ELSE /\ pc' = [pc EXCEPT ![t] = "done"]
            /\ UNCHANGED globalTag

\* Entry of readTag: timeout is set to None; the 1-byte read is next.
Enter(t) ==
    /\ timeout' = "None"
    /\ pc' = [pc EXCEPT ![t] = "first"]
    /\ tag' = [tag EXCEPT ![t] = <<>>]
    /\ result' = [result EXCEPT ![t] = NoResult]
    /\ since' = IF t = "fg" /\ since = "frame" THEN "frame" ELSE "none"

\* ReadFirst without the flushInput() of the bad-start branch.
ReadFirstNoFlush(t) ==
    /\ pc[t] = "first"
    /\ IF buf = <<>>
       THEN /\ timeout = "short"
            /\ tag' = [tag EXCEPT ![t] = <<>>]
            /\ Finish(t, Ok(Zero))
            /\ UNCHANGED <<buf, timeout>>
       ELSE /\ tag' = [tag EXCEPT ![t] = <<Head(buf)>>]
            /\ buf' = Tail(buf)
            /\ IF Head(buf) = STX
               THEN /\ timeout' = "short"
                    /\ pc' = [pc EXCEPT ![t] = "rest"]
                    /\ since' = IF t = "fg" THEN since ELSE "none"
                    /\ UNCHANGED <<result, globalTag>>
               ELSE /\ Finish(t, Err("ValueError", "BadStartMarker"))
                    /\ UNCHANGED timeout
    /\ UNCHANGED <<gpioVars, sent, calls>>

\* The 1-byte read and the branch on it.  With timeout None it waits for a
\* byte; with the short timeout (set meanwhile by the other thread) it may
\* come back empty, and readTag returns 0.
ReadFirst(t) ==
    /\ pc[t] = "first"
    /\ IF buf = <<>>
       THEN /\ timeout = "short"
            /\ tag' = [tag EXCEPT ![t] = <<>>]
            /\ Finish(t, Ok(Zero))
            /\ UNCHANGED <<buf, timeout>>
       ELSE /\ tag' = [tag EXCEPT ![t] = <<Head(buf)>>]
            /\ IF Head(buf) = STX
               THEN /\ timeout' = "short"
                    /\ buf' = Tail(buf)
                    /\ pc' = [pc EXCEPT ![t] = "rest"]
                    /\ since' = IF t = "fg" THEN since ELSE "none"
                    /\ UNCHANGED <<result, globalTag>>
               ELSE /\ buf' = <<>>
                    /\ Finish(t, Err("ValueError", "BadStartMarker"))
                    /\ UNCHANGED timeout
    /\ UNCHANGED <<gpioVars, sent, calls>>

\* The continuation read of dataSize - 1 bytes: what is there when the
\* short timeout expires, or all of them.  With timeout None (set meanwhile
\* by the other thread) it waits for all of them.
ReadRest(t) ==
    /\ pc[t] = "rest"
    /\ timeout = "None" => Len(buf) >= dataSize - 1
    /\ LET n == IF Len(buf) < dataSize - 1 THEN Len(buf) ELSE dataSize - 1
       IN  /\ tag' = [tag EXCEPT ![t] = SubSeq(buf, 1, n)]
           /\ buf' = SubSeq(buf, n + 1, Len(buf))
    /\ pc' = [pc EXCEPT ![t] = "decode"]
    /\ since' = IF t = "fg" THEN since ELSE "none"
    /\ UNCHANGED <<timeout, result, globalTag, gpioVars, sent, calls>>

\* The length check, the conversion and the check sum.
Decode(t) ==
    /\ pc[t] = "decode"
    /\ LET d == DecodeTag(tag[t])
       IN  /\ buf' = IF d.flush THEN <<>> ELSE buf
           /\ Finish(t, d.res)
    /\ UNCHANGED <<timeout, tag, gpioVars, sent, calls>>

\* The program calls readTag directly.
FgCall ==
    /\ pc["fg"] \in {"idle", "done"}
    /\ calls < MaxCalls
    /\ calls' = calls + 1
    /\ Enter("fg")
    /\ UNCHANGED <<buf, globalTag, gpioVars, sent>>

FgReadFirst == ReadFirst("fg")
FgReadRest == ReadRest("fg")
FgDecode == Decode("fg")

\* TagReader.clearBuffer, called directly.
FgClearBuffer ==
    /\ pc["fg"] \in {"idle", "done"}
    /\ buf # <<>>
    /\ buf' = <<>>
    /\ since' = "none"
    /\ UNCHANGED <<timeout, pc, tag, result, globalTag, gpioVars, sent, calls>>

\* ------------------------------------------------------------------------
\* The tag-in-range line and its callback
\* ------------------------------------------------------------------------

\* installCallback(linePin): add_event_detect raises on a line that already
\* has edge detection, after globalReader has been set.
InstallCallback ==
    /\ linePin \notin detect
    /\ globalReader' = "self"
    /\ detect' = detect \cup {linePin}
    /\ removed' = FALSE
    /\ UNCHANGED <<buf, timeout, doCheckSum, pc, tag, result, globalTag, level,
                   linePin, pending, sent, edges, calls, missed, since>>

\* removeCallback(): edge detection is removed from TIRpin, whatever line
\* installCallback was given.
RemoveCallback ==
    /\ ~removed
    /\ detect' = detect \ {TIRpin}
    /\ pending' = IF linePin = TIRpin THEN 0 ELSE pending
    /\ removed' = TRUE
    /\ missed' = (missed \/ (linePin = TIRpin /\ pending > 0))
    /\ UNCHANGED <<buf, timeout, doCheckSum, pc, tag, result, globalTag,
                   globalReader, level, linePin, sent, edges, calls, since>>

\* The tag-in-range line changes level; with edge detection on it (BOTH)
\* the callback is due once more.
Edge ==
    /\ edges < MaxEdges
    /\ edges' = edges + 1
    /\ level' = 1 - level
    /\ pending' = IF linePin \in detect THEN pending + 1 ELSE pending
    /\ missed' = (missed \/ linePin \notin detect)
    /\ UNCHANGED <<buf, timeout, doCheckSum, pc, tag, result, globalTag,
                   globalReader, linePin, detect, removed, sent, calls, since>>

\* CbStart with a handler that does not call clearBuffer() on a low line.
CbStartNoClear ==
    /\ pending > 0
    /\ pc["cb"] = "idle"
    /\ pending' = pending - 1
    /\ IF level = 1
       THEN /\ Enter("cb")
            /\ UNCHANGED <<buf, globalTag>>
       ELSE /\ globalTag' = Zero
            /\ since' = "none"
            /\ UNCHANGED <<buf, timeout, pc, tag, result>>
    /\ UNCHANGED <<doCheckSum, globalReader, level, linePin, detect, removed,
                   sent, edges, calls, missed>>

\* CbStart with a handler that leaves globalTag alone on a low line.
CbStartKeepsTag ==
    /\ pending > 0
    /\ pc["cb"] = "idle"
    /\ pending' = pending - 1
    /\ IF level = 1
       THEN /\ Enter("cb")
            /\ UNCHANGED <<buf, globalTag>>
       ELSE /\ buf' = <<>>
            /\ since' = "none"
            /\ UNCHANGED <<timeout, pc, tag, result, globalTag>>
    /\ UNCHANGED <<doCheckSum, globalReader, level, linePin, detect, removed,
                   sent, edges, calls, missed>>

\* tagReaderCallback starts: it reads the line's level as it is now.  High:
\* it calls globalReader.readTag().  Low: globalTag = 0 and clearBuffer().
CbStart ==
    /\ pending > 0
    /\ pc["cb"] = "idle"
    /\ pending' = pending - 1
    /\ IF level = 1
       THEN /\ Enter("cb")
            /\ UNCHANGED <<buf, globalTag>>
       ELSE /\ globalTag' = Zero
            /\ buf' = <<>>
            /\ since' = "none"
            /\ UNCHANGED <<timeout, pc, tag, result>>
    /\ UNCHANGED <<doCheckSum, globalReader, level, linePin, detect, removed,
                   sent, edges, calls, missed>>

CbReadFirst == ReadFirst("cb")
CbReadRest == ReadRest("cb")
CbDecode == Decode("cb")

\* ------------------------------------------------------------------------
\* Specifications
\* ------------------------------------------------------------------------

Next ==
    \/ Arrive
    \/ FgCall
    \/ FgReadFirst
    \/ FgReadRest
    \/ FgDecode
    \/ FgClearBuffer
    \/ InstallCallback
    \/ RemoveCallback
    \/ Edge
    \/ CbStart
    \/ CbReadFirst
    \/ CbReadRest
    \/ CbDecode

\* The program with the presence monitor: bytes arrive while it runs.
Spec == Init /\ [][Next]_vars

\* The presence monitor on its own: the program installs the callback and
\* then only waits.  RPi.GPIO's callback thread keeps running: a callback
\* that is due is started, and a readTag in the handler takes its next
\* step, when it can.  Its decoding step can always be taken, so the
\* fairness of that step is that the thread does not stay before it.
NextMonitor ==
    \/ Arrive
    \/ InstallCallback
    \/ Edge
    \/ CbStart
    \/ CbReadFirst
    \/ CbReadRest
    \/ CbDecode

SpecMonitor ==
    /\ Init
    /\ [][NextMonitor]_vars
    /\ WF_vars(CbStart)
    /\ WF_vars(CbReadFirst)
    /\ WF_vars(CbReadRest)
    /\ []<>(pc["cb"] # "decode")

\* One reader without the presence monitor, called with any of the
\* initial inputs in the buffer.
InitRead ==
    /\ buf \in InitialInputs
    /\ linePin = TIRpin
    /\ InitCommon

NextRead ==
    \/ Arrive
    \/ FgCall
    \/ FgReadFirst
    \/ FgReadRest
    \/ FgDecode

SpecRead == InitRead /\ [][NextRead]_vars


\* ------------------------------------------------------------------------
\* Properties
\* ------------------------------------------------------------------------

\* The continuation read of thread t delivered all dataSize - 1 bytes.
FullLength(t) == Len(tag[t]) = dataSize - 1
Payload(t) == SubSeq(tag[t], 1, 10)
SumField(t) == SubSeq(tag[t], 11, 12)

\* Every code of s is one of 0-9, A-F, a-f.
AllHex(s) == \A i \in 1..Len(s) : s[i] \in (48..57) \cup (65..70) \cup (97..102)

\* The byte the i-th pair of base-16 digits of s stands for.
HexPair(s, i) == 16 * DigitValue(s[2 * i - 1]) + DigitValue(s[2 * i])

\* XOR of the five bytes of a payload of ten base-16 digits.
PayloadXor(p) ==
    PyXor(PyXor(PyXor(PyXor(HexPair(p, 1), HexPair(p, 2)), HexPair(p, 3)),
                HexPair(p, 4)), HexPair(p, 5))

\* The integer a string of base-16 digits stands for.
HexNum(s) == [neg |-> FALSE, mag |-> StripZeros([i \in 1..Len(s) |-> DigitValue(s[i])])]

\* C1: a foreground readTag that read a full-length frame whose payload and
\* check sum field are base-16 digits succeeded if and only if the XOR of
\* the five payload bytes equals the check sum byte; otherwise it raised
\* the check sum ValueError.
C1_ChecksumDecides ==
    (/\ pc["fg"] = "done"
     /\ doCheckSum
     /\ FullLength("fg")
     /\ AllHex(Payload("fg"))
     /\ AllHex(SumField("fg")))
    => IF PayloadXor(Payload("fg")) = HexPair(SumField("fg"), 1)
       THEN result["fg"].ok
       ELSE result["fg"] = Err("ValueError", "ChecksumMismatch")

\* A frame of tag 0x0123456789 with its check sum 89 was read and accepted.
C1_Witness ==
    /\ pc["fg"] = "done"
    /\ doCheckSum
    /\ tag["fg"] = <<48, 49, 50, 51, 52, 53, 54, 55, 56, 57, 56, 57, 13, 10, 3>>
    /\ result["fg"].ok

\* C2: a readTag whose continuation read returned exactly the rest of the
\* frame of a sample tag, of either reader family, returned the tag's value.
C2_RoundTripBothFamilies ==
    \A v \in TagSamples : \A term \in {TermID, TermRDM} :
        (/\ pc["fg"] = "done"
         /\ tag["fg"] = Tail(GoodFrame(v, term)))
        => result["fg"] = Ok(TagNum(v))

\* C3: with doCheckSum off, a readTag that read a full-length frame with a
\* payload of ten base-16 digits returned the payload's value.
C3_NoChecksumWhenDisabled ==
    (/\ pc["fg"] = "done"
     /\ ~doCheckSum
     /\ FullLength("fg")
     /\ AllHex(Payload("fg")))
    => result["fg"] = Ok(HexNum(Payload("fg")))

C5_BadStartFlushes ==
    [][ (/\ pc["fg"] = "first"
         /\ buf # <<>>
         /\ Head(buf) # STX
         /\ pc'["fg"] # "first")
        => (/\ pc'["fg"] = "done"
            /\ tag'["fg"] = <<Head(buf)>>
            /\ result'["fg"] = Err("ValueError", "BadStartMarker")
            /\ timeout' = timeout
            /\ buf' = <<>>) ]_vars

\* The byte 0x41 was read first; the call raised and the buffer is empty.
C5_Witness ==
    /\ pc["fg"] = "done"
    /\ tag["fg"] = <<65>>
    /\ result["fg"] = Err("ValueError", "BadStartMarker")
    /\ timeout = "None"
    /\ buf = <<>>

\* C6: when a full-length frame with a payload of ten base-16 digits and a
\* check sum field that is not two base-16 digits is decoded, the call
\* raises the check sum ValueError and the input buffer is empty as it does.
C6_BadSumFieldIsValueError ==
    [][ (/\ pc["fg"] = "decode"
         /\ FullLength("fg")
         /\ AllHex(Payload("fg"))
         /\ ~AllHex(SumField("fg"))
         /\ pc'["fg"] # "decode")
        => (/\ result'["fg"] = Err("ValueError", "ChecksumMismatch")
            /\ buf' = <<>>) ]_vars


\* C7: when the handler, having found the line high, gets a value from
\* readTag, globalTag becomes that value (the tag's number when the frame
\* of a sample tag was read); when the handler finds the line low,
\* globalTag becomes 0 and the input buffer is empty as it ends.
C7_HandlerTracksTag ==
    [][ /\ (/\ pc["cb"] \in {"first", "decode"}
            /\ pc'["cb"] = "idle"
            /\ result'["cb"].ok)
           => globalTag' = result'["cb"].val
        /\ \A v \in TagSamples :
              (/\ pc["cb"] = "decode"
               /\ tag["cb"] = Tail(GoodFrame(v, TermID))
               /\ pc'["cb"] = "idle")
              => globalTag' = TagNum(v)
        /\ (/\ pc["cb"] = "idle"
            /\ level = 0
            /\ pending > 0
            /\ pending' = pending - 1
            /\ detect' = detect)
           => (/\ globalTag' = Zero
               /\ buf' = <<>>
               /\ pc'["cb"] = "idle") ]_vars

\* The handler read tag 42 on the rising edge, and the handler of the
\* falling edge has run since: globalTag is 0 again and the buffer empty.
C7_Witness ==
    /\ edges = 2
    /\ level = 0
    /\ pending = 0
    /\ pc["cb"] = "idle"
    /\ result["cb"] = Ok(TagNum(Tag42))
    /\ globalTag = Zero
    /\ buf = <<>>

\* C8: when readTag raises in the handler, the handler ends normally (the
\* callback thread is idle again) with globalTag = 0.
C8_HandlerSwallowsErrors ==
    [][ (/\ result["cb"] = NoResult
         /\ ~result'["cb"].ok
         /\ result'["cb"] # NoResult)
        => (/\ pc'["cb"] = "idle"
            /\ globalTag' = Zero) ]_vars

\* The handler's readTag raised the check sum error; globalTag is 0.
C8_Witness ==
    /\ pc["cb"] = "idle"
    /\ level = 1
    /\ result["cb"] = Err("ValueError", "ChecksumMismatch")
    /\ globalTag = Zero

\* Thread t is between its 1-byte read and the end of its readTag.
Mid(t) == pc[t] \in {"rest", "decode"}

\* C9: the foreground readTag and the handler's readTag are never both
\* between their 1-byte read and their end.
C9_AtMostOneReader == ~(Mid("fg") /\ Mid("cb"))

\* C10: once removeCallback has returned, the line that was handed to
\* installCallback has no edge detection and no callback due.
C10_RemoveDetaches == removed => (linePin \notin detect /\ pending = 0)


\* No code of p is a base-16 digit other than 0.
NoNonZeroDigit(p) == \A i \in 1..Len(p) : DigitValue(p[i]) \notin 1..15

TagZero == <<0, 0, 0, 0, 0, 0, 0, 0, 0, 0>>

\* C11 as claimed: a readTag that read a full-length frame and returned a
\* value did not return 0.
C11_ZeroNeverDecoded ==
    (/\ pc["fg"] = "done"
     /\ FullLength("fg")
     /\ result["fg"].ok)
    => result["fg"].val # Zero

\* C11 as amended: a readTag that returned 0 either read nothing at all or
\* read a full-length frame whose payload has no digit other than 0; the
\* frame of tag 0 (payload 0000000000, check sum 00) does return 0.
C11_ZeroOnlyFromZeroPayload ==
    /\ (pc["fg"] = "done" /\ result["fg"] = Ok(Zero))
       => \/ tag["fg"] = <<>>
          \/ FullLength("fg") /\ NoNonZeroDigit(Payload("fg"))
    /\ (pc["fg"] = "done" /\ tag["fg"] = Tail(GoodFrame(TagZero, TermID)))
       => result["fg"] = Ok(Zero)

\* The frame of tag 0 was read and 0 returned.
C11_Witness ==
    /\ pc["fg"] = "done"
    /\ tag["fg"] = Tail(GoodFrame(TagZero, TermID))
    /\ result["fg"] = Ok(Zero)

\* C12: globalTag is 0 at the start and changes only in a step of the
\* handler: the end of its readTag, or its branch for a low line.
C12_OnlyHandlerWritesTag ==
    /\ globalTag = Zero
    /\ [][ globalTag' # globalTag
           => \/ pc["cb"] \in {"first", "decode"} /\ pc'["cb"] = "idle"
              \/ /\ pc["cb"] = "idle"
                 /\ pc'["cb"] = "idle"
                 /\ level = 0
                 /\ pending' = pending - 1 ]_vars

\* The foreground read tag 42, a callback was installed and removed, and
\* globalTag is still 0.
C12_Witness ==
    /\ pc["fg"] = "done"
    /\ result["fg"] = Ok(TagNum(Tag42))
    /\ globalReader = "self"
    /\ removed
    /\ buf # <<>>
    /\ globalTag = Zero

\* C14: a readTag that read a full-length frame returned a value only if
\* the payload is ten base-16 digits, and then their value; with any other
\* byte in the payload it raised the conversion ValueError.
C14_OnlyHexPayloadsDecode ==
    (pc["fg"] = "done" /\ FullLength("fg"))
    => /\ result["fg"].ok
          => /\ AllHex(Payload("fg"))
             /\ result["fg"].val = HexNum(Payload("fg"))
       /\ ~AllHex(Payload("fg"))
          => result["fg"] = Err("ValueError", "MalformedPayload")

\* C15: what readTag returns or raises on a full-length frame, and whether
\* it flushes, is what it does on the frame with the same payload and check
\* sum field and the terminator CR LF ETX.
C15_TerminatorIgnored ==
    [][ (pc["fg"] = "decode" /\ FullLength("fg") /\ pc'["fg"] # "decode")
        => LET d == DecodeTag(SubSeq(tag["fg"], 1, 12) \o TermID)
           IN  /\ result'["fg"] = d.res
               /\ d.flush => buf' = <<>>
               /\ ~d.flush => buf' = buf ]_vars

\* A frame ending in ETX STX '0' instead of CR LF ETX was accepted.
C15_Witness ==
    /\ pc["fg"] = "done"
    /\ FullLength("fg")
    /\ SubSeq(tag["fg"], 13, 15) = <<3, STX, 48>>
    /\ result["fg"] = Ok(TagNum(Tag42))

\* The oldest edge whose callback is due is a rising one: the edges due
\* are the latest ones, they alternate, and the latest left the line at
\* its present level.
OldestDueIsRising == (level = 1) <=> (pending % 2 = 1)

\* C16: the handler started for a rising edge calls readTag, also when the
\* line has fallen again by then.
C16_RisingEdgeReadsOnce ==
    [][ (/\ pc["cb"] = "idle"
         /\ pending > 0
         /\ pending' = pending - 1
         /\ detect' = detect
         /\ OldestDueIsRising)
        => pc'["cb"] = "first" ]_vars

\* C20: the 1-byte read takes STX off the buffer, the continuation read the
\* next dataSize - 1 bytes (or all there are), and a readTag that returns a
\* value has read STX and dataSize - 1 bytes and leaves the buffer as it is.
C20_SuccessKeepsRest ==
    [][ /\ (pc["fg"] = "first" /\ pc'["fg"] = "rest")
           => buf = <<STX>> \o buf'
        /\ (pc["fg"] = "rest" /\ pc'["fg"] = "decode")
           => /\ buf = tag'["fg"] \o buf'
              /\ Len(tag'["fg"]) = dataSize - 1 \/ buf' = <<>>
        /\ (pc["fg"] = "decode" /\ pc'["fg"] = "done" /\ result'["fg"].ok)
           => /\ FullLength("fg")
              /\ buf' = buf
        /\ (Len(buf') < Len(buf) /\ buf' = <<>> /\ Len(buf) > dataSize - 1)
           => ~result'["fg"].ok ]_vars

\* Tag 42 was returned and the two bytes queued behind its frame are still
\* in the buffer.
C20_Witness ==
    /\ pc["fg"] = "done"
    /\ result["fg"] = Ok(TagNum(Tag42))
    /\ sent = 0
    /\ buf = <<STX, 48>>


\* C17: a falling edge whose callback is due is followed by a state with
\* globalTag 0 and the buffer empty.
C17_FallLeadsToZero ==
    (level = 0 /\ pending > 0) ~> (globalTag = Zero /\ buf = <<>>)

\* C18: a foreground readTag that has read STX can always go on to its
\* result, whatever is in the buffer: the continuation read never waits.
C18_ContinuationNeverWaits ==
    pc["fg"] = "rest" => ENABLED FgReadRest


\* C13: when a foreground readTag has failed and then exactly one frame of
\* tag 42 has arrived and nothing else, the next readTag returns 42.
C13_ChannelUsableAfterError ==
    [][ (since = "frame" /\ pc["fg"] # "done" /\ pc'["fg"] = "done")
        => result'["fg"] = Ok(TagNum(Tag42)) ]_vars

\* C19: with the line low, a callback made for every edge so far, none
\* of them due and none running, globalTag is 0.
C19_QuiescentLowIsZero ==
    (level = 0 /\ ~missed /\ pending = 0 /\ pc["cb"] = "idle")
    => globalTag = Zero

\* The handler read tag 42 on a rising edge, ran again for the falling
\* edge, and nothing is due.
C19_Witness ==
    /\ level = 0
    /\ ~missed
    /\ pending = 0
    /\ pc["cb"] = "idle"
    /\ edges = 2
    /\ result["cb"] = Ok(TagNum(Tag42))
    /\ globalTag = Zero

====
